---- MODULE Spec2Model ----
(***************************************************************************)
(* A model of vecbrain: the cached embedding call (services/openai.py),    *)
(* the vector collection and its write and search paths                    *)
(* (services/qdrant.py, services/document_service.py,                      *)
(* services/langchain_service.py, main.py), the chat history, the chat    *)
(* response with its background persistence tasks, the /chat handler and   *)
(* its word splitter, the text splitter of document ingestion, and the     *)
(* tool agent (services/agent_service.py).                                 *)
(*                                                                         *)
(* The external collaborators (the embedding and generation providers, the *)
(* vector index) are modelled at their interface: a call returns one of    *)
(* the results the provider can give, or fails.                            *)
(***************************************************************************)
EXTENDS Integers, Sequences, FiniteSets, TLC

\* ---------------------------------------------------------------- bounds
NumTexts == 3
NumVecs == 2
MaxPoints == 3
NumFiles == 2
MaxTime == 1
\* The iterations the agent executor allows one run (initialize_agent is
\* given no max_iterations, so the executor's own default applies).
MaxIterations == 3
\* The words of a request text where its splitting is examined.
MaxWords == 4
\* The paragraphs of a document text where its splitting is examined.
MaxPars == 4
\* The capacity the cache is given where its eviction is examined.
LruSize == 2

\* ------------------------------------------------------- program constants
\* openai.py:34, the input limit of text-embedding-3-small
MaxTokens == 8191
\* openai.py:18, lru_cache(maxsize=1000)
CacheMaxSize == 1000
\* openai.py:9: the client is made with no max_retries, so it repeats a
\* request that failed transiently at most twice, as the library does unasked.
MaxRetries == 2
\* document_service.py:36-40, langchain_service.py:26-30: the text splitter
ChunkSize == 1000
ChunkOverlap == 200

\* A text is known by its number.  Text t has MaxTokens - 2 + t tokens, so
\* that the texts straddle the limit: 8190, 8191 (accepted), 8192 (refused).
Texts == 1..NumTexts
Vectors == 1..NumVecs
\* The threads (or requests) that call get_embedding.
Callers == {"a", "b"}

NoText == 0
\* What a call gives its caller: a vector, or the exception it raised.
Ok(v) == [status |-> "ok", vec |-> v]
Raised(e) == [status |-> e, vec |-> 0]
NoResult == Raised("none")
NoCall == [text |-> NoText, res |-> NoResult, called |-> FALSE, kept |-> FALSE]

VARIABLES
  cache,           \* lru_cache of get_embedding: <<[key, val]>>, least recent first
  pc,              \* caller -> "idle" | "provider" | "done"
  text,            \* caller -> the text of its current or last call
  res,             \* caller -> Ok(vector), Raised("too_long"), Raised("provider_error")
  called,          \* caller -> its current or last call invoked the provider
  prevAtStart,     \* caller -> the call that had completed last when this one began
  prev,            \* the call that completed last
  providerCalled,  \* the texts the embedding provider was ever called with
  attempts,        \* caller -> the requests its current or last call sent the provider
  maxsize,         \* the capacity of the lru_cache
  lru,             \* what the calls so far used and computed, to judge the cache by
  split,           \* a text given to the text splitter, and its chunks
  collectionExists,\* the "documents" collection was created
  points,          \* the collection: a set of [id, text, meta], one point per id
  writes,          \* how many points were written so far
  nextUuid,        \* how many uuid4() values were handed out as ids of the payload
  now,             \* the clock read by datetime.now()
  chat_history,    \* LangChainService.chat_history, the in-memory turns
  reply,           \* what the last operation gave its caller
  rq,              \* chat request -> where get_chat_response is, and its answer
  tasks,           \* the event loop's queue of add_to_chat_history tasks
  taskState,       \* chat request, role -> "none" | "pending" | "stored" | "failed"
  log,             \* the turns whose persistence failure was printed
  chat,            \* the /chat handler: its pieces, where it is, its responses
  worker,          \* process -> where its qdrant.store_document is
  agent            \* the agent run of process_complex_query

embedVars == <<cache, pc, text, res, called, prevAtStart, prev, providerCalled,
               attempts>>
restVars == <<maxsize, lru, split>>
storeVars == <<collectionExists, points, writes, nextUuid, now, chat_history>>
chatVars == <<rq, tasks, taskState, log>>
moreVars == <<chat, worker, agent>>
vars == <<cache, pc, text, res, called, prevAtStart, prev, providerCalled,
          attempts, maxsize, lru, split, collectionExists, points, writes,
          nextUuid, now, chat_history, reply,
          rq, tasks, taskState, log, chat, worker, agent>>

\* ------------------------------------------------------------ get_embedding
count_tokens(t) == MaxTokens - 2 + t

TooLongOffByOne(t) == count_tokens(t) > MaxTokens + 1
\* openai.py:33-35: the token check of get_embedding
TooLong(t) == count_tokens(t) > MaxTokens

CacheKeys(c) == {c[i].key : i \in 1..Len(c)}
CacheIndex(c, t) == CHOOSE i \in 1..Len(c) : c[i].key = t
CacheValue(c, t) == c[CacheIndex(c, t)].val

RemoveAt(s, i) == SubSeq(s, 1, i - 1) \o SubSeq(s, i + 1, Len(s))

CacheTouchSkipped(c, t) == c
\* A hit moves the entry to the most recently used end.
CacheTouch(c, t) == Append(RemoveAt(c, CacheIndex(c, t)), c[CacheIndex(c, t)])

CacheStoreSkipped(c, t, v) == c
\* The store after the wrapped function returned: a key that another call
\* added meanwhile is left as it is; a full cache drops its least recent entry.
CacheStore(c, t, v) ==
  IF t \in CacheKeys(c) THEN c
  ELSE Append(IF Len(c) >= maxsize THEN Tail(c) ELSE c, [key |-> t, val |-> v])

Done(c, t, r, cl, kp) ==
  /\ pc' = [pc EXCEPT ![c] = "done"]
  /\ res' = [res EXCEPT ![c] = r]
  /\ prev' = [text |-> t, res |-> r, called |-> cl, kept |-> kp]

\* get_embedding(t) up to its first suspension: the cache lookup of lru_cache,
\* then on a miss the token check and the start of the provider request.
GetEmbedding(c, t) ==
  /\ pc[c] \in {"idle", "done"}
  /\ text' = [text EXCEPT ![c] = t]
  /\ prevAtStart' = [prevAtStart EXCEPT ![c] = prev]
  /\ IF t \in CacheKeys(cache)
     THEN /\ cache' = CacheTouch(cache, t)
          /\ called' = [called EXCEPT ![c] = FALSE]
          /\ attempts' = [attempts EXCEPT ![c] = 0]
          /\ Done(c, t, Ok(CacheValue(cache, t)), FALSE, TRUE)
          /\ UNCHANGED providerCalled
     ELSE IF TooLong(t)
     THEN /\ called' = [called EXCEPT ![c] = FALSE]
          /\ attempts' = [attempts EXCEPT ![c] = 0]
          /\ Done(c, t, Raised("too_long"), FALSE, FALSE)
          /\ UNCHANGED <<cache, providerCalled>>
     ELSE /\ pc' = [pc EXCEPT ![c] = "provider"]
          /\ called' = [called EXCEPT ![c] = TRUE]
          /\ attempts' = [attempts EXCEPT ![c] = 1]
          /\ providerCalled' = providerCalled \cup {t}
          /\ UNCHANGED <<cache, res, prev>>
  /\ UNCHANGED <<restVars, storeVars, reply, chatVars, moreVars>>

ProviderRetryOnceMore(c) ==
  /\ pc[c] = "provider"
  /\ attempts[c] <= MaxRetries + 1
  /\ attempts' = [attempts EXCEPT ![c] = attempts[c] + 1]
  /\ UNCHANGED <<cache, pc, text, res, called, prevAtStart, prev, providerCalled,
                 restVars, storeVars, reply, chatVars, moreVars>>
\* client.embeddings.create met a transient failure (no connection, a 429, a
\* 5xx answer) and has retries left: the client sends the request again.
ProviderRetry(c) ==
  /\ pc[c] = "provider"
  /\ attempts[c] <= MaxRetries
  /\ attempts' = [attempts EXCEPT ![c] = attempts[c] + 1]
  /\ UNCHANGED <<cache, pc, text, res, called, prevAtStart, prev, providerCalled,
                 restVars, storeVars, reply, chatVars, moreVars>>

\* client.embeddings.create returns vector v: it is returned and cached.
ProviderReturn(c, v) ==
  /\ pc[c] = "provider"
  /\ cache' = CacheStore(cache, text[c], v)
  /\ Done(c, text[c], Ok(v), TRUE,
          text[c] \notin CacheKeys(cache) \/ CacheValue(cache, text[c]) = v)
  /\ UNCHANGED <<text, called, prevAtStart, providerCalled, attempts, restVars,
                 storeVars, reply, chatVars, moreVars>>

ProviderFailCached(c) ==
  /\ pc[c] = "provider"
  /\ cache' = CacheStore(cache, text[c], Raised("provider_error").vec)
  /\ Done(c, text[c], Raised("provider_error"), TRUE, FALSE)
  /\ UNCHANGED <<text, called, prevAtStart, providerCalled, attempts, restVars,
                 storeVars, reply, chatVars, moreVars>>
\* client.embeddings.create raises: printed and re-raised, nothing is cached.
ProviderFail(c) ==
  /\ pc[c] = "provider"
  /\ Done(c, text[c], Raised("provider_error"), TRUE, FALSE)
  /\ UNCHANGED <<cache, text, called, prevAtStart, providerCalled, attempts,
                 restVars, storeVars, reply, chatVars, moreVars>>

\* ------------------------------------------------------- the vector index
\* A payload's metadata is a map from keys to values; {**a, **b} is Merge(a, b).
NoMeta == <<>>
Merge(a, b) ==
  [k \in DOMAIN a \cup DOMAIN b |-> IF k \in DOMAIN b THEN b[k] ELSE a[k]]
HasType(p, ty) == "type" \in DOMAIN p.meta /\ p.meta.type = ty

\* The ids of the index.  uuid4() gives an id no point has; where it falls in
\* the index's order is arbitrary.  hash(text) is a function of the text.
IdPool == 1..MaxPoints
PointIds == {p.id : p \in points}
FreshIds == IdPool \ PointIds
Hash(t) == 0 - t

Files == 1..NumFiles
\* The file's path is its number; files 1 and 2 have the same name in two
\* directories.  The loader and the splitter give file f the chunks 1..f.
Basename(f) == (f + 1) \div 2
FileChunks(f) == [i \in 1..(IF f = 1 THEN 1 ELSE 2) |-> i]

Roles == {"user", "assistant"}
\* The context ids a caller may pass; NoContext is None.
Contexts == 1..2
NoContext == 0
\* The n-th uuid4() of the process: none equals a context id a caller made up.
Uuid(n) == Cardinality(Contexts) + n

\* What an operation gives its caller: ok is FALSE when it raised; hits are the
\* points of a search, msgs the messages of a history, val a number (a doc id,
\* an HTTP status), args the arguments of a history request.
Reply(op, ok, hits, val) ==
  [op |-> op, ok |-> ok, hits |-> hits, val |-> val, msgs |-> <<>>, args |-> <<>>]
NoReply == Reply("none", TRUE, {}, 0)

\* client.upsert: a point with an id the collection holds replaces that point.
Upsert(pts, p) == {q \in pts : q.id # p.id} \cup {p}

\* The injections of 1..n into the fresh ids: the ids n new points may get.
IdChoices(n) ==
  {f \in [1..n -> FreshIds] : \A i, j \in 1..n : i # j => f[i] # f[j]}

\* vector_store.add_texts(texts, metadatas): one new point per text, each with
\* an id of its own.
AddTexts(pts, entries, ids) ==
  pts \cup {[id |-> ids[i], text |-> entries[i].text, meta |-> entries[i].meta]
              : i \in 1..Len(entries)}

\* qdrant.py:32: id=hash(text)
QdrantId(t) == Hash(t)

\* qdrant.store_document(text, embedding, metadata): init_collection, then an
\* upsert of one point whose id is hash(text).
QdrantStoreDocument(t, m) ==
  /\ writes < MaxPoints
  /\ collectionExists' = TRUE
  /\ points' = Upsert(points, [id |-> QdrantId(t), text |-> t, meta |-> m])
  /\ writes' = writes + 1
  /\ reply' = Reply("qdrant.store_document", TRUE, {}, 0)
  /\ UNCHANGED <<embedVars, restVars, chatVars, moreVars, nextUuid, now, chat_history>>

\* ------------------------------------- qdrant.store_document, step by step
\* The processes that serve requests over the one collection of the store.
Workers == {"w1", "w2"}
IdleWorker == [pc |-> "idle", text |-> NoText, meta |-> NoMeta, missing |-> FALSE,
               ok |-> TRUE]
InFlight == {w \in Workers : worker[w].pc \in {"checked", "upsert"}}

\* client.create_collection as qdrant.py:17-23 calls it: the store creates a
\* collection of a new name and answers a name in use with an error.
CreateCollection(exists) == IF exists THEN "conflict" ELSE "created"

\* qdrant.py:15-16: init_collection lists the collections and looks for
\* "documents" among them.
InitCollectionCheck(w, t, m) ==
  /\ worker[w].pc \in {"idle", "done"}
  /\ writes + Cardinality(InFlight) < MaxPoints
  /\ worker' = [worker EXCEPT ![w] =
       [pc |-> "checked", text |-> t, meta |-> m, missing |-> ~collectionExists,
        ok |-> TRUE]]
  /\ UNCHANGED <<embedVars, restVars, storeVars, chatVars, reply, chat, agent>>

\* qdrant.py:16-23: the collection is created when the list did not have it.
\* An error of create_collection leaves init_collection and store_document as
\* an exception.
InitCollectionCreate(w) ==
  /\ worker[w].pc = "checked"
  /\ IF ~worker[w].missing
     THEN /\ worker' = [worker EXCEPT ![w].pc = "upsert"]
          /\ UNCHANGED collectionExists
     ELSE IF CreateCollection(collectionExists) = "created"
     THEN /\ worker' = [worker EXCEPT ![w].pc = "upsert"]
          /\ collectionExists' = TRUE
     ELSE /\ worker' = [worker EXCEPT ![w].pc = "done", ![w].ok = FALSE]
          /\ UNCHANGED collectionExists
  /\ UNCHANGED <<embedVars, restVars, chatVars, reply, chat, agent, points, writes, nextUuid,
                 now, chat_history>>

\* qdrant.py:28-37: the upsert of the point.
StoreUpsert(w) ==
  /\ worker[w].pc = "upsert"
  /\ points' = Upsert(points, [id |-> QdrantId(worker[w].text),
                               text |-> worker[w].text, meta |-> worker[w].meta])
  /\ writes' = writes + 1
  /\ worker' = [worker EXCEPT ![w].pc = "done"]
  /\ UNCHANGED <<embedVars, restVars, chatVars, reply, chat, agent, collectionExists, nextUuid,
                 now, chat_history>>

\* document_service.py:70-74: the loader's source, then doc_id, source and
\* the caller's metadata over it.
DocChunkMeta(f, d, m) == Merge([source |-> f, doc_id |-> d], m)

\* DocumentService.process_document(file_path, metadata)
DocProcessDocument(f, m) ==
  LET chunks == FileChunks(f)
      d == Uuid(nextUuid + 1)
      entries == [i \in 1..Len(chunks) |->
                    [text |-> chunks[i], meta |-> DocChunkMeta(f, d, m)]]
  IN /\ writes + Len(chunks) <= MaxPoints
     /\ \/ /\ \E ids \in IdChoices(Len(chunks)) :
                points' = AddTexts(points, entries, ids)
           /\ writes' = writes + Len(chunks)
           /\ nextUuid' = nextUuid + 1
           /\ reply' = Reply("doc.process_document", TRUE, {}, d)
        \/ \* the loader, the embeddings or the store raised
           /\ reply' = Reply("doc.process_document", FALSE, {}, 0)
           /\ UNCHANGED <<points, writes, nextUuid>>
     /\ UNCHANGED <<embedVars, restVars, chatVars, moreVars, collectionExists, now, chat_history>>

\* ------------------------------------------------------- the text splitter
\* A document text is a sequence of paragraphs with a blank line between
\* them; a paragraph is known by its length and has no blank in it, and none
\* is longer than ChunkSize, so the splitter never has to cut inside one.
ParLens == {100, 450, 600}
DocTexts == UNION {[1..n -> ParLens] : n \in 0..MaxPars}
\* len("\n\n"), the separator between two paragraphs
SeparatorLen == 2
NoSplit == [text |-> <<>>, chunks |-> <<>>, done |-> FALSE]

\* RecursiveCharacterTextSplitter, the merging of the paragraphs into chunks.
\* The paragraphs of the chunk being filled are T[lo..i-1], of total length
\* total.  After a chunk is closed, paragraphs leave it from the front until
\* what stays is at most ChunkOverlap long and has room for the next one.
RECURSIVE Shrink(_, _, _, _)
Shrink(T, i, lo, total) ==
  LET n == i - lo
  IN IF total > ChunkOverlap
        \/ (total + T[i] + (IF n > 0 THEN SeparatorLen ELSE 0) > ChunkSize /\ total > 0)
     THEN Shrink(T, i, lo + 1, total - (T[lo] + (IF n > 1 THEN SeparatorLen ELSE 0)))
     ELSE [lo |-> lo, total |-> total]

\* A chunk is the paragraphs T[lo..hi], joined by the separator and stripped.
RECURSIVE MergeSplits(_, _, _, _, _)
MergeSplits(T, i, lo, total, docs) ==
  IF i > Len(T)
  THEN IF lo < i THEN Append(docs, [lo |-> lo, hi |-> i - 1]) ELSE docs
  ELSE IF lo < i /\ total + T[i] + SeparatorLen > ChunkSize
       THEN LET s == Shrink(T, i, lo, total)
            IN MergeSplits(T, i + 1, s.lo,
                 s.total + T[i] + (IF s.lo < i THEN SeparatorLen ELSE 0),
                 Append(docs, [lo |-> lo, hi |-> i - 1]))
       ELSE MergeSplits(T, i + 1, lo,
              total + T[i] + (IF lo < i THEN SeparatorLen ELSE 0), docs)

\* text_splitter.split_text(text)
SplitText(T) == MergeSplits(T, 1, 1, 0, <<>>)

\* langchain_service.py:148-150: the text of the file is read and split.
ReadAndSplit(T) ==
  /\ ~split.done
  /\ split' = [text |-> T, chunks |-> SplitText(T), done |-> TRUE]
  /\ UNCHANGED <<embedVars, maxsize, lru, storeVars, reply, chatVars, moreVars>>

\* langchain_service.py:156-163: doc_id, chunk_id and source, then the
\* caller's metadata over them.
LcChunkMeta(f, i, m) ==
  Merge([doc_id |-> Basename(f), chunk_id |-> i - 1, source |-> f], m)

\* LangChainService.process_document(file_path, metadata)
LcProcessDocument(f, m) ==
  LET chunks == FileChunks(f)
      entries == [i \in 1..Len(chunks) |->
                    [text |-> chunks[i], meta |-> LcChunkMeta(f, i, m)]]
  IN /\ writes + Len(chunks) <= MaxPoints
     /\ \/ /\ \E ids \in IdChoices(Len(chunks)) :
                points' = AddTexts(points, entries, ids)
           /\ writes' = writes + Len(chunks)
           /\ reply' = Reply("lc.process_document", TRUE, {}, Basename(f))
        \/ \* open(), the embeddings or the store raised
           /\ reply' = Reply("lc.process_document", FALSE, {}, 0)
           /\ UNCHANGED <<points, writes>>
     /\ UNCHANGED <<embedVars, restVars, chatVars, moreVars, collectionExists, nextUuid, now,
                    chat_history>>

\* langchain_service.py:109-116: the metadata of a stored turn
ChatMeta(mid, role, ts, ctx, content) ==
  [type |-> "chat", message_id |-> mid, role |-> role, timestamp |-> ts,
   context_id |-> ctx, content |-> content]

\* langchain_service.py:120-126: the turn kept in memory
Turn(mid, role, ts, ctx, content) ==
  [id |-> mid, text |-> content, role |-> role, timestamp |-> ts,
   context_id |-> ctx]

\* LangChainService.add_to_chat_history(role, content, context_id): a message
\* id and the clock's timestamp, a context id when none is given, the write
\* to the store under a new point id, then the append to the in-memory history.
AddToChatHistoryOk(role, content, ctx, pid) ==
  LET mid == Uuid(nextUuid + 1)
      cid == IF ctx = NoContext THEN Uuid(nextUuid + 2) ELSE ctx
  IN /\ points' = AddTexts(points,
                    <<[text |-> content, meta |-> ChatMeta(mid, role, now, cid, content)]>>,
                    <<pid>>)
     /\ chat_history' = Append(chat_history, Turn(mid, role, now, cid, content))
     /\ writes' = writes + 1
     /\ nextUuid' = IF ctx = NoContext THEN nextUuid + 2 ELSE nextUuid + 1

AddToChatHistoryHalfWritten ==
  /\ chat_history' = Append(chat_history, Turn(Uuid(nextUuid + 1), "user", now, NoContext, 0))
  /\ UNCHANGED <<points, writes, nextUuid>>
\* The store write raised: printed and re-raised; the in-memory history is
\* not touched.
AddToChatHistoryFailed == UNCHANGED <<points, chat_history, writes, nextUuid>>

AddToChatHistory(role, content, ctx) ==
  /\ writes < MaxPoints
  /\ \/ /\ \E pid \in FreshIds : AddToChatHistoryOk(role, content, ctx, pid)
        /\ reply' = Reply("add_to_chat_history", TRUE, {}, 0)
     \/ /\ AddToChatHistoryFailed
        /\ reply' = Reply("add_to_chat_history", FALSE, {}, 0)
  /\ UNCHANGED <<embedVars, restVars, chatVars, moreVars, collectionExists, now>>

\* Time passes.
Tick ==
  /\ now < MaxTime
  /\ now' = now + 1
  /\ UNCHANGED <<embedVars, restVars, chatVars, moreVars, collectionExists, points, writes,
                 nextUuid, chat_history, reply>>

\* ----------------------------------------------------------------- search
Min(a, b) == IF a < b THEN a ELSE b

\* The k nearest points: which points are nearest depends on the vectors, so
\* any k points (all of them when there are fewer) may be the answer.
Nearest(pts, k) == {H \in SUBSET pts : Cardinality(H) = Min(k, Cardinality(pts))}

\* qdrant.py:41-45, document_service.py:91-94: the search is given the query
\* vector and the limit, and no filter.
SearchCandidates(ty) == points

\* qdrant.search_similar(query_embedding, limit)
QdrantSearchSimilar(k) ==
  /\ \E H \in Nearest(SearchCandidates("any"), k) :
       reply' = Reply("qdrant.search_similar", TRUE, H, 0)
  /\ UNCHANGED <<embedVars, restVars, storeVars, chatVars, moreVars>>

\* DocumentService.search_documents(query, limit), the document search
DocSearchDocuments(k) ==
  /\ \/ \E H \in Nearest(SearchCandidates("document"), k) :
          reply' = Reply("doc.search_documents", TRUE, H, 0)
     \/ reply' = Reply("doc.search_documents", FALSE, {}, 0)
  /\ UNCHANGED <<embedVars, restVars, storeVars, chatVars, moreVars>>

\* ------------------------------------------------------------ chat history
\* The points a scroll with the filter type=chat (and context_id=ctx when one
\* is given) selects.
MatchesChatFilter(p, ctx) ==
  /\ HasType(p, "chat")
  /\ ctx # NoContext => ("context_id" \in DOMAIN p.meta /\ p.meta.context_id = ctx)

\* The points of a set as the index orders them, by id.
RECURSIVE InIdOrder(_)
InIdOrder(pts) ==
  IF pts = {} THEN <<>>
  ELSE LET p == CHOOSE q \in pts : \A o \in pts : q.id <= o.id
       IN <<p>> \o InIdOrder(pts \ {p})

\* client.scroll(filter, limit, offset): one page of the selected points.
Scroll(ctx, limit, offset) ==
  LET all == InIdOrder({p \in points : MatchesChatFilter(p, ctx)})
  IN SubSeq(all, offset + 1, Min(offset + limit, Len(all)))

\* langchain_service.py:80-86: a point's message, with the defaults of
\* payload.get: a new uuid (here the negated place in the page), "" (here 0),
\* "user", the time of the request, None.
Get(m, k, default) == IF k \in DOMAIN m THEN m[k] ELSE default
Message(p, i) ==
  [id |-> Get(p.meta, "message_id", 0 - i),
   text |-> Get(p.meta, "content", 0),
   role |-> Get(p.meta, "role", "user"),
   timestamp |-> Get(p.meta, "timestamp", now),
   context_id |-> Get(p.meta, "context_id", NoContext)]

\* langchain_service.py:76-78: the points of the page that are chat turns.
Messages(page) ==
  LET kept == SelectSeq([i \in 1..Len(page) |-> [p |-> page[i], i |-> i]],
                        LAMBDA e : HasType(e.p, "chat"))
  IN [j \in 1..Len(kept) |-> Message(kept[j].p, kept[j].i)]

\* list.sort(key=timestamp): stable, ascending.
RECURSIVE InsertByTimestamp(_, _)
InsertByTimestamp(sorted, m) ==
  IF sorted = <<>> THEN <<m>>
  ELSE IF Head(sorted).timestamp <= m.timestamp
       THEN <<Head(sorted)>> \o InsertByTimestamp(Tail(sorted), m)
       ELSE <<m>> \o sorted
RECURSIVE SortByTimestamp(_)
SortedAsScrolled(msgs) == msgs
\* langchain_service.py:89: messages.sort(key=lambda x: x["timestamp"])
SortByTimestamp(msgs) ==
  IF msgs = <<>> THEN <<>>
  ELSE InsertByTimestamp(SortByTimestamp(SubSeq(msgs, 1, Len(msgs) - 1)),
                         msgs[Len(msgs)])

HistoryReply(msgs, raised, ctx, limit, offset) ==
  [op |-> "get_chat_history", ok |-> TRUE, hits |-> {},
   val |-> IF raised THEN 1 ELSE 0, msgs |-> msgs, args |-> <<ctx, limit, offset>>]

\* LangChainService.get_chat_history(context_id, limit, offset) under the
\* handler of main.py: the page of the scroll, made messages and sorted; an
\* empty list when the scroll raised or the handler's 5 s ran out.
GetChatHistory(ctx, limit, offset) ==
  /\ \/ reply' = HistoryReply(SortByTimestamp(Messages(Scroll(ctx, limit, offset))),
                              FALSE, ctx, limit, offset)
     \/ reply' = HistoryReply(<<>>, TRUE, ctx, limit, offset)
  /\ UNCHANGED <<embedVars, restVars, storeVars, chatVars, moreVars>>

\* LangChainService.clear_chat_history(context_id): the store deletes the
\* points the filter selects; when the delete raises, that is printed and the
\* call returns as it does after a delete.  The in-memory history stays.
ClearChatHistory(ctx) ==
  /\ \/ /\ points' = {p \in points : ~MatchesChatFilter(p, ctx)}
        /\ reply' = [Reply("clear_chat_history", TRUE, {}, 0) EXCEPT !.args = <<ctx>>]
     \/ /\ reply' = [Reply("clear_chat_history", TRUE, {}, 1) EXCEPT !.args = <<ctx>>]
        /\ UNCHANGED points
  /\ UNCHANGED <<embedVars, restVars, chatVars, moreVars, collectionExists, writes, nextUuid, now,
                 chat_history>>

\* ------------------------------------------------------- the HTTP handlers
\* get_embedding run to its end by an async handler: the call is synchronous,
\* so no other request runs meanwhile.  o is what the provider would give:
\* a vector, or NoVector when it raises.
NoVector == 0
EmbedNow(c, t, o) ==
  IF t \in CacheKeys(c)
  THEN [cache |-> CacheTouch(c, t), res |-> Ok(CacheValue(c, t)), called |-> {}]
  ELSE IF TooLong(t)
  THEN [cache |-> c, res |-> Raised("too_long"), called |-> {}]
  ELSE IF o = NoVector
  THEN [cache |-> c, res |-> Raised("provider_error"), called |-> {t}]
  ELSE [cache |-> CacheStore(c, t, o), res |-> Ok(o), called |-> {t}]

\* The cache is judged on a small capacity: LruSize entries, and texts of
\* which LruSize + 1 are short enough to be embedded.
LruTexts == (2 - LruSize)..NumTexts
\* What the calls so far did: order holds the texts a call returned a vector
\* for, the most recently used last; computed maps a text to the vector the
\* provider gave for it last.
NoUse == [order |-> <<>>, computed |-> [t \in LruTexts |-> NoVector]]
Used(order, t) == Append(SelectSeq(order, LAMBDA x : x # t), t)

\* One get_embedding(t) from its call to its return, with a record of what it
\* used or computed.
CachedCall(t, o) ==
  LET e == EmbedNow(cache, t, o)
  IN /\ cache' = e.cache
     /\ providerCalled' = providerCalled \cup e.called
     /\ reply' = [Reply("get_embedding", e.res.status = "ok", {}, e.res.vec)
                    EXCEPT !.args = <<t>>]
     /\ lru' = IF e.res.status # "ok" THEN lru
               ELSE [order |-> Used(lru.order, t),
                     computed |-> IF e.called = {} THEN lru.computed
                                  ELSE [lru.computed EXCEPT ![t] = o]]
     /\ UNCHANGED <<pc, text, res, called, prevAtStart, prev, attempts, maxsize,
                    split, storeVars, chatVars, moreVars>>

\* get_embedding for each text of ts in turn, until one raises.
RECURSIVE EmbedSeq(_, _, _)
EmbedSeq(c, ts, outs) ==
  IF ts = <<>> THEN [cache |-> c, ok |-> TRUE, called |-> {}]
  ELSE LET e == EmbedNow(c, Head(ts), outs[Head(ts)])
       IN IF e.res.status # "ok"
          THEN [cache |-> e.cache, ok |-> FALSE, called |-> e.called]
          ELSE LET r == EmbedSeq(e.cache, Tail(ts), outs)
               IN [cache |-> r.cache, ok |-> r.ok,
                   called |-> e.called \cup r.called]

\* qdrant.py:25: store_document(text, embedding, metadata=None) binds at most
\* three positional arguments and no keyword but its own.
StoreDocumentBinds(positional, keywords) ==
  /\ positional + Cardinality(keywords) <= 3
  /\ keywords \subseteq {"text", "embedding", "metadata"}

\* main.store_document: the embedding, a uuid, then qdrant.store_document
\* called with four positional arguments (doc_id, text, embedding, metadata).
\* The call cannot bind them and raises; like a failed embedding it ends in
\* the handler's except clause, as HTTP 500.
MainStoreDocument(t, m) ==
  /\ ~StoreDocumentBinds(4, {})
  /\ \E o \in Vectors \cup {NoVector} :
       LET e == EmbedNow(cache, t, o)
       IN /\ cache' = e.cache
          /\ providerCalled' = providerCalled \cup e.called
  /\ reply' = Reply("main.store_document", FALSE, {}, 500)
  /\ UNCHANGED <<pc, text, res, called, prevAtStart, prev, attempts, restVars,
                 storeVars, chatVars, moreVars>>

\* The orders in which a search may rank the points of H.
Rankings(H) ==
  {r \in [1..Cardinality(H) -> H] :
     \A i, j \in 1..Cardinality(H) : i # j => r[i] # r[j]}

\* main.simplify_text: the embedding of the text, the 5 nearest points (no
\* filter), for each of them that is a chat turn an embedding of its text and
\* a search of limit 1, the completion, the embedding again, and then
\* qdrant.store_document called with the keyword doc_id, which it does not
\* have: the handler ends in its except clause, as HTTP 500, with nothing
\* stored.
MainSimplifyText(t) ==
  /\ ~StoreDocumentBinds(0, {"doc_id", "text", "embedding", "metadata"})
  /\ \E H \in Nearest(points, 5) :
     \E chats \in Rankings({p \in H : HasType(p, "chat")}) :
       LET ts == <<t>> \o [i \in 1..Len(chats) |-> chats[i].text]
       IN \E outs \in [{ts[i] : i \in 1..Len(ts)} -> Vectors \cup {NoVector}] :
          \E e \in {EmbedSeq(cache, ts, outs)} :
            /\ cache' = e.cache
            /\ providerCalled' = providerCalled \cup e.called
  /\ reply' = Reply("main.simplify_text", FALSE, {}, 500)
  /\ UNCHANGED <<pc, text, res, called, prevAtStart, prev, attempts, restVars,
                 storeVars, chatVars, moreVars>>

\* ------------------------------------------------------- get_chat_response
Requests == {"r1", "r2"}
Queries == {1, 2}
\* What the generator may answer.
Answers == {1, 2}

NoResponse == [kind |-> "none", text |-> 0, via |-> "none"]
Answer(a, via) == [kind |-> "answer", text |-> a, via |-> via]
\* langchain_service.py:246-251: the two apology texts
Apology(why) == [kind |-> why, text |-> 0, via |-> "none"]

IdleRequest ==
  [pc |-> "idle", query |-> 0, chain |-> "none", late |-> FALSE,
   direct |-> "none", resp |-> NoResponse, recent |-> <<>>, history |-> <<>>]

\* langchain_service.py:218: self.chat_history[-5:], the turns the chat
\* history given to the chain is formatted from
RecentHistory(h) == SubSeq(h, IF Len(h) > 5 THEN Len(h) - 4 ELSE 1, Len(h))

\* langchain_service.py:221: the "" a question is paired with until an
\* assistant turn follows
NoAnswer == 0
\* langchain_service.py:219-224: a user turn opens a pair (question, ""); an
\* assistant turn becomes the answer of the last pair, if there is a pair.
RECURSIVE FormatTurns(_, _)
FormatTurns(recent, formatted) ==
  IF recent = <<>> THEN formatted
  ELSE LET msg == Head(recent)
           n == Len(formatted)
       IN FormatTurns(Tail(recent),
            IF msg.role = "user" THEN Append(formatted, <<msg.text, NoAnswer>>)
            ELSE IF msg.role = "assistant" /\ formatted # <<>>
            THEN [formatted EXCEPT ![n] = <<formatted[n][1], msg.text>>]
            ELSE formatted)
\* langchain_service.py:216-224: formatted_history, the (question, answer)
\* pairs given to the chain
FormattedHistory(h) == FormatTurns(RecentHistory(h), <<>>)

SpawnUserTaskOnly(r, q, a) == <<[req |-> r, role |-> "user", content |-> q]>>
\* langchain_service.py:241-243: the two tasks, the user turn first
SpawnTasks(r, q, a) ==
  <<[req |-> r, role |-> "user", content |-> q],
    [req |-> r, role |-> "assistant", content |-> a]>>

\* The answer is there: the two persistence tasks are created and the answer
\* is returned.
ReturnAnswer(r, q, a) ==
  /\ tasks' = tasks \o SpawnTasks(r, q, a)
  /\ taskState' = [taskState EXCEPT ![r] =
       [role \in Roles |->
          IF \E i \in 1..Len(SpawnTasks(r, q, a)) : SpawnTasks(r, q, a)[i].role = role
          THEN "pending" ELSE "none"]]

\* get_chat_response(query) up to its first suspension.  The chain runs
\* synchronously: it returns an answer, returns none, or raises, and it may
\* take longer than the 10 s of asyncio.timeout, which can only stop the
\* coroutine where it awaits.  With an answer of the chain the coroutine never
\* awaits; otherwise it awaits the direct call llm.ainvoke, which would give
\* an answer or raise: inside the try block when the chain returned no answer
\* (pc "direct_in_try"), in the except clause when the chain raised.
GetChatResponse(r, q, ch, late, direct) ==
  /\ rq[r].pc = "idle"
  /\ writes + Len(tasks) + 2 <= MaxPoints
  /\ IF ch = "answer"
     THEN /\ direct = "none"
          /\ \E a \in Answers :
               /\ rq' = [rq EXCEPT ![r] =
                    [pc |-> "done", query |-> q, chain |-> ch, late |-> late,
                     direct |-> direct, resp |-> Answer(a, "chain"),
                     recent |-> RecentHistory(chat_history),
                     history |-> FormattedHistory(chat_history)]]
               /\ ReturnAnswer(r, q, a)
     ELSE /\ direct # "none"
          /\ rq' = [rq EXCEPT ![r] =
               [pc |-> IF ch = "empty" THEN "direct_in_try" ELSE "direct",
                query |-> q, chain |-> ch, late |-> late,
                direct |-> direct, resp |-> NoResponse,
                recent |-> RecentHistory(chat_history),
                history |-> FormattedHistory(chat_history)]]
          /\ UNCHANGED <<tasks, taskState>>
  /\ UNCHANGED <<moreVars, embedVars, restVars, storeVars, reply, log>>

\* llm.ainvoke returned in time: its content is the answer.
DirectReturn(r, a) ==
  /\ rq[r].pc \in {"direct_in_try", "direct"}
  /\ ~rq[r].late
  /\ rq[r].direct = "answer"
  /\ rq' = [rq EXCEPT ![r].pc = "done", ![r].resp = Answer(a, "direct")]
  /\ ReturnAnswer(r, rq[r].query, a)
  /\ UNCHANGED <<moreVars, embedVars, restVars, storeVars, reply, log>>

\* llm.ainvoke raised in time.  Inside the try block the except clause makes
\* the direct call once more, which would give d; in the except clause the
\* outer handler returns the apology.
DirectRaise(r, d) ==
  /\ rq[r].pc \in {"direct_in_try", "direct"}
  /\ ~rq[r].late
  /\ rq[r].direct = "raise"
  /\ rq' = IF rq[r].pc = "direct_in_try"
           THEN [rq EXCEPT ![r].pc = "direct", ![r].direct = d]
           ELSE [rq EXCEPT ![r].pc = "done",
                           ![r].resp = Apology("apology_error")]
  /\ UNCHANGED <<moreVars, embedVars, restVars, storeVars, reply, tasks, taskState, log>>

\* The 10 s ran out, during the chain or during the direct call: the await is
\* cancelled and the timeout apology is returned.
DirectTimeout(r) ==
  /\ rq[r].pc \in {"direct_in_try", "direct"}
  /\ rq' = [rq EXCEPT ![r].pc = "done", ![r].resp = Apology("apology_timeout")]
  /\ UNCHANGED <<moreVars, embedVars, restVars, storeVars, reply, tasks, taskState, log>>

\* The event loop runs the oldest task: add_to_chat_history(role, content)
\* with no context id.  A failure is printed and stays in the task.
RunTask ==
  /\ tasks # <<>>
  /\ LET t == Head(tasks)
     IN \/ /\ \E pid \in FreshIds :
                AddToChatHistoryOk(t.role, t.content, NoContext, pid)
           /\ taskState' = [taskState EXCEPT ![t.req][t.role] = "stored"]
           /\ UNCHANGED log
        \/ /\ AddToChatHistoryFailed
           /\ taskState' = [taskState EXCEPT ![t.req][t.role] = "failed"]
           /\ log' = log \cup {[req |-> t.req, role |-> t.role]}
  /\ tasks' = Tail(tasks)
  /\ UNCHANGED <<moreVars, embedVars, restVars, collectionExists, now, reply, rq>>

\* -------------------------------------------------------------- POST /chat
\* main.py:438: a piece has at most 500 characters
ChunkLimit == 500
\* A request text is a sequence of words.  Word 1 has 249 characters and word
\* 2 has 250, so that two words with the blank between them fit a piece or
\* just do not; word 3, of 501 characters, fits no piece.
Words == 1..3
WordLen(w) == IF w = 3 THEN ChunkLimit + 1 ELSE 248 + w
\* The texts of a request: blank, one piece of two words, two pieces, and a
\* long word, before which the loop closes an empty piece.
ChatTexts == {<<>>, <<1, 2>>, <<2, 2>>, <<3>>}
\* Every text of at most MaxWords words, where the splitting alone is examined.
AllChatTexts == UNION {[1..n -> Words] : n \in 0..MaxWords}

\* len(current_chunk): the words and the blanks between them
RECURSIVE ChunkLen(_)
ChunkLen(ch) ==
  IF ch = <<>> THEN 0
  ELSE IF Len(ch) = 1 THEN WordLen(ch[1])
  ELSE WordLen(Head(ch)) + 1 + ChunkLen(Tail(ch))

RECURSIVE SplitWordsDropping(_, _, _)
SplitWordsDropping(ws, chunks, current) ==
  IF ws = <<>>
  THEN IF current # <<>> THEN Append(chunks, current) ELSE chunks
  ELSE IF ChunkLen(current) + WordLen(Head(ws)) + 1 <= ChunkLimit
       THEN SplitWordsDropping(Tail(ws), chunks, Append(current, Head(ws)))
       ELSE SplitWordsDropping(Tail(ws), Append(chunks, current), <<>>)
\* main.py:435-444: the loop over request.text.split()
RECURSIVE SplitWords(_, _, _)
SplitWords(ws, chunks, current) ==
  IF ws = <<>>
  THEN IF current # <<>> THEN Append(chunks, current) ELSE chunks
  ELSE IF ChunkLen(current) + WordLen(Head(ws)) + 1 <= ChunkLimit
       THEN SplitWords(Tail(ws), chunks, Append(current, Head(ws)))
       ELSE SplitWords(Tail(ws), Append(chunks, current), <<Head(ws)>>)

Chunks(txt) == SplitWords(txt, <<>>, <<>>)

\* The piece as the query of get_chat_response: its words read as a number.
RECURSIVE QueryOf(_)
QueryOf(ch) == IF ch = <<>> THEN 0 ELSE Head(ch) + 4 * QueryOf(Tail(ch))

\* A response text is a sequence of characters; Blank is " ".
Blank == 0
\* What get_chat_response returns as a text: the answer, or one of its two
\* apologies (langchain_service.py:245-251), which have blanks in them.
ResponseText(resp) ==
  CASE resp.kind = "answer" -> <<resp.text>>
    [] resp.kind = "apology_timeout" -> <<3, Blank, 4>>
    [] OTHER -> <<3, Blank, 5>>
\* main.py:460: the text of a piece whose 15 s ran out
PieceTimeoutText == <<6, Blank, 4>>

\* main.py:466: " ".join(responses)
RECURSIVE Join(_)
RECURSIVE JoinedWithoutBlank(_)
JoinedWithoutBlank(strs) ==
  IF strs = <<>> THEN <<>> ELSE Head(strs) \o JoinedWithoutBlank(Tail(strs))
Join(strs) ==
  IF strs = <<>> THEN <<>>
  ELSE IF Len(strs) = 1 THEN strs[1]
  ELSE Head(strs) \o <<Blank>> \o Join(Tail(strs))

\* The get_chat_response call of the /chat handler.
ChatRequest == "r1"

IdleChat ==
  [pc |-> "idle", ctx |-> NoContext, words |-> <<>>, chunks |-> <<>>, i |-> 0,
   asked |-> <<>>,
   kinds |-> <<>>, responses |-> <<>>, final |-> <<>>, status |-> 0]

\* The handler has the response of piece i: it goes on to the next piece, or
\* after the last piece joins the responses and returns them.
ChatAppend(q, kind, txt) ==
  LET rs == Append(chat.responses, txt)
      last == chat.i = Len(chat.chunks)
  IN chat' = [chat EXCEPT !.responses = rs,
                          !.asked = Append(chat.asked, q),
                          !.kinds = Append(chat.kinds, kind),
                          !.i = IF last THEN chat.i ELSE chat.i + 1,
                          !.pc = IF last THEN "done" ELSE "piece",
                          !.final = IF last THEN Join(rs) ELSE <<>>,
                          !.status = IF last THEN 200 ELSE 0]

\* POST /chat with a text (request.context_id is logged and not used): the
\* text is split; with no piece the empty join is returned at once.
MainChat(txt, ctx) ==
  /\ chat.pc = "idle"
  /\ chat' = IF Chunks(txt) = <<>>
             THEN [IdleChat EXCEPT !.pc = "done", !.ctx = ctx, !.words = txt,
                                   !.final = Join(<<>>), !.status = 200]
             ELSE [IdleChat EXCEPT !.pc = "piece", !.ctx = ctx, !.words = txt,
                                   !.chunks = Chunks(txt), !.i = 1]
  /\ UNCHANGED <<embedVars, restVars, storeVars, chatVars, reply, worker, agent>>

\* The handler calls get_chat_response with piece i.
ChatPiece(ch, late, direct) ==
  /\ chat.pc = "piece"
  /\ GetChatResponse(ChatRequest, QueryOf(chat.chunks[chat.i]), ch, late, direct)

\* get_chat_response returned, an answer or an apology.
ChatCollect ==
  /\ chat.pc = "piece"
  /\ rq[ChatRequest].pc = "done"
  /\ ChatAppend(rq[ChatRequest].query, rq[ChatRequest].resp.kind,
                ResponseText(rq[ChatRequest].resp))
  /\ rq' = [rq EXCEPT ![ChatRequest] = IdleRequest]
  /\ UNCHANGED <<embedVars, restVars, storeVars, reply, tasks, taskState, log, worker, agent>>

\* The 15 s of the piece ran out.  This needs a chain that held the event loop
\* that long: a direct call that is merely slow is stopped by the 10 s of
\* get_chat_response, which returns its own apology.  Both timers have fired
\* when the coroutine first awaits, and the cancellation ends in the except
\* clause of the handler.
ChatPieceTimeout ==
  /\ chat.pc = "piece"
  /\ rq[ChatRequest].pc \in {"direct_in_try", "direct"}
  /\ rq[ChatRequest].late
  /\ ChatAppend(rq[ChatRequest].query, "piece_timeout", PieceTimeoutText)
  /\ rq' = [rq EXCEPT ![ChatRequest] = IdleRequest]
  /\ UNCHANGED <<embedVars, restVars, storeVars, reply, tasks, taskState, log, worker, agent>>

\* ------------------------------------------------------------- the agent
\* agent_service.py:90-106: the registered tools
Tools == {"calculator", "weather", "search_documents", "current_time", "format_number"}
\* The input the generator gives a tool: one the tool's work can be done on
\* (an expression, a number), or one it cannot.
ToolInputs == {"good", "bad"}

\* What an invocation does.  failed: the tool's work hit an exception; raised:
\* the exception left the tool; obs: what the tool returned, "Error" for a
\* text that begins with "Error".
Observed(failed, obs) == [failed |-> failed, raised |-> FALSE, obs |-> obs]
ToolRaised == [failed |-> TRUE, raised |-> TRUE, obs |-> "none"]

\* agent_service.py:24-31: eval in a try block
CalculatorRun(input) ==
  IF input = "bad" THEN Observed(TRUE, "Error") ELSE Observed(FALSE, "text")
\* agent_service.py:42-47: a constant text
WeatherRun(input) == Observed(FALSE, "text")
\* agent_service.py:58-73: search_documents is a coroutine function and is
\* called without await; iterating over its coroutine raises inside the try
\* block, whatever the query.
SearchRun(input) == Observed(TRUE, "Error")
\* agent_service.py:98: strftime of the clock
CurrentTimeRun(input) == Observed(FALSE, "text")
\* agent_service.py:103: float(x) with no try block around it
FormatNumberRun(input) ==
  IF input = "bad" THEN ToolRaised ELSE Observed(FALSE, "text")

ToolRun(tool, input) ==
  CASE tool = "calculator" -> CalculatorRun(input)
    [] tool = "weather" -> WeatherRun(input)
    [] tool = "search_documents" -> SearchRun(input)
    [] tool = "current_time" -> CurrentTimeRun(input)
    [] OTHER -> FormatNumberRun(input)

\* The attributes an agent executor has; tools_used is not one of them.
ExecutorAttributes ==
  {"agent", "tools", "max_iterations", "early_stopping_method",
   "handle_parsing_errors", "return_intermediate_steps", "verbose"}

\* agent_service.py:134: self.agent.tools_used if it has one, else []
ToolsUsed(calls) ==
  IF "tools_used" \in ExecutorAttributes
  THEN [i \in 1..Len(calls) |-> calls[i].tool]
  ELSE <<>>

\* agent_service.py:136-140: the dict process_complex_query returns
AgentResult(kind, calls) ==
  [response |-> kind, tools_used |-> ToolsUsed(calls), timestamp |-> now]

IdleAgent ==
  [pc |-> "idle", iterations |-> 0, calls |-> <<>>, observations |-> <<>>,
   result |-> <<>>]

\* process_complex_query(query): run_agent starts the executor's loop.
ProcessComplexQuery ==
  /\ agent.pc = "idle"
  /\ agent' = [IdleAgent EXCEPT !.pc = "thinking"]
  /\ UNCHANGED <<embedVars, restVars, storeVars, chatVars, reply, chat, worker>>

\* The generator names a tool and an input, and the executor invokes the
\* tool.  An exception that leaves the tool leaves the executor too, and
\* run_agent returns its text as the response ("Error running agent: ...").
\* Otherwise the observation is kept and the iteration counted; after the
\* last allowed iteration the executor stops with its fixed text.
AgentToolCall(tool, input) ==
  /\ agent.pc = "thinking"
  /\ LET o == ToolRun(tool, input)
         calls == Append(agent.calls, [tool |-> tool, input |-> input])
     IN agent' =
          IF o.raised
          THEN [agent EXCEPT !.pc = "done", !.calls = calls,
                             !.result = AgentResult("error", calls)]
          ELSE IF agent.iterations + 1 = MaxIterations
          THEN [agent EXCEPT !.pc = "done", !.calls = calls,
                             !.iterations = MaxIterations,
                             !.observations = Append(agent.observations, o.obs),
                             !.result = AgentResult("stopped", calls)]
          ELSE [agent EXCEPT !.calls = calls,
                             !.iterations = agent.iterations + 1,
                             !.observations = Append(agent.observations, o.obs)]
  /\ UNCHANGED <<embedVars, restVars, storeVars, chatVars, reply, chat, worker>>

\* The generator emits its final answer.
AgentFinalAnswer ==
  /\ agent.pc = "thinking"
  /\ agent' = [agent EXCEPT !.pc = "done", !.result = AgentResult("answer", agent.calls)]
  /\ UNCHANGED <<embedVars, restVars, storeVars, chatVars, reply, chat, worker>>

\* The call of the generator raises: run_agent returns the text of the error.
AgentGeneratorError ==
  /\ agent.pc = "thinking"
  /\ agent' = [agent EXCEPT !.pc = "done", !.result = AgentResult("error", agent.calls)]
  /\ UNCHANGED <<embedVars, restVars, storeVars, chatVars, reply, chat, worker>>

InitChat ==
  /\ rq = [r \in Requests |-> IdleRequest]
  /\ tasks = <<>>
  /\ taskState = [r \in Requests |-> [role \in Roles |-> "none"]]
  /\ log = {}
  /\ chat = IdleChat
  /\ worker = [w \in Workers |-> IdleWorker]
  /\ agent = IdleAgent

InitStore ==
  /\ collectionExists = FALSE
  /\ points = {}
  /\ writes = 0
  /\ nextUuid = 0
  /\ now = 0
  /\ chat_history = <<>>
  /\ reply = NoReply

\* The cache of capacity m before any call.
InitCache(m) ==
  /\ cache = <<>>
  /\ maxsize = m
  /\ lru = NoUse

InitCallers ==
  /\ attempts = [c \in Callers |-> 0]
  /\ pc = [c \in Callers |-> "idle"]
  /\ text = [c \in Callers |-> NoText]
  /\ res = [c \in Callers |-> NoResult]
  /\ called = [c \in Callers |-> FALSE]
  /\ prevAtStart = [c \in Callers |-> NoCall]
  /\ prev = NoCall
  /\ providerCalled = {}

InitEmbed == InitCache(CacheMaxSize) /\ InitCallers

Init == InitEmbed /\ InitStore /\ InitChat /\ split = NoSplit

NextEmbed ==
  \/ \E c \in Callers, t \in Texts : GetEmbedding(c, t)
  \/ \E c \in Callers, v \in Vectors : ProviderReturn(c, v)
  \/ \E c \in Callers : ProviderFail(c)

SpecEmbed == Init /\ [][NextEmbed]_vars

\* The same calls, with the retries of the client counted.
NextRetry ==
  \/ \E c \in Callers, t \in Texts : GetEmbedding(c, t)
  \/ \E c \in Callers, v \in Vectors : ProviderReturn(c, v)
  \/ \E c \in Callers : ProviderRetry(c)
  \/ \E c \in Callers : ProviderFail(c)

SpecRetry == Init /\ [][NextRetry]_vars

\* Calls of get_embedding one after the other, on a cache of LruSize entries.
InitLru == InitCache(LruSize) /\ InitCallers /\ InitStore /\ InitChat /\ split = NoSplit

NextLru == \E t \in LruTexts, o \in Vectors \cup {NoVector} : CachedCall(t, o)

SpecLru == InitLru /\ [][NextLru]_vars

\* The metadata a caller may pass, and the limits it may ask for (5 is the
\* default limit).
Metas == {NoMeta, [type |-> "document"]}
Limits == {1, 5}

NextStore ==
  \/ \E t \in Texts, m \in Metas : QdrantStoreDocument(t, m)
  \/ \E f \in Files, m \in Metas : DocProcessDocument(f, m)
  \/ \E f \in Files, m \in Metas : LcProcessDocument(f, m)
  \/ \E r \in Roles, ctx \in {NoContext, 1} : AddToChatHistory(r, 1, ctx)
  \/ \E k \in Limits : QdrantSearchSimilar(k)
  \/ \E k \in Limits : DocSearchDocuments(k)

SpecStore == Init /\ [][NextStore]_vars

\* Document ingestion alone, with metadata of the caller that has a key of
\* its own, doc_id or source in it.
IngestMetas == {NoMeta, [author |-> 9], [doc_id |-> 9], [source |-> 9]}

NextIngest ==
  \/ \E f \in Files, m \in IngestMetas : DocProcessDocument(f, m)
  \/ \E f \in Files, m \in IngestMetas : LcProcessDocument(f, m)

SpecIngest == Init /\ [][NextIngest]_vars

\* The plain document store and the simplify endpoint of main.py, over
\* qdrant.py, with the chat turns the simplify endpoint looks for.
NextApi ==
  \/ \E t \in Texts, m \in Metas : QdrantStoreDocument(t, m)
  \/ \E t \in Texts, m \in Metas : MainStoreDocument(t, m)
  \/ \E t \in Texts : MainSimplifyText(t)
  \/ AddToChatHistory("user", 1, 1)

SpecApi == Init /\ [][NextApi]_vars

\* The chat history: turns of two conversations written as time passes, a
\* document beside them, and the paginated read.
NextHistory ==
  \/ \E ctx \in Contexts : AddToChatHistory("user", 1, ctx)
  \/ LcProcessDocument(1, [type |-> "chat"])
  \/ Tick
  \/ \E ctx \in {NoContext, 1}, offset \in {0, 1} : GetChatHistory(ctx, 2, offset)

SpecHistory == Init /\ [][NextHistory]_vars

\* The conversation memory: turns written, with and without a context id,
\* read and cleared.
NextMemory ==
  \/ \E role \in Roles, ctx \in {NoContext, 1} : AddToChatHistory(role, 1, ctx)
  \/ \E ctx \in {NoContext, 1} : ClearChatHistory(ctx)
  \/ \E ctx \in {NoContext, 1} : GetChatHistory(ctx, 2, 0)

SpecMemory == Init /\ [][NextMemory]_vars

\* Chat requests and their background persistence.
NextChat ==
  \/ \E r \in Requests, q \in Queries, late \in BOOLEAN :
       GetChatResponse(r, q, "answer", late, "none")
  \/ \E r \in Requests, q \in Queries, ch \in {"empty", "raise"},
        late \in BOOLEAN, direct \in {"answer", "raise"} :
       GetChatResponse(r, q, ch, late, direct)
  \/ \E r \in Requests, a \in Answers : DirectReturn(r, a)
  \/ \E r \in Requests, d \in {"answer", "raise"} : DirectRaise(r, d)
  \/ \E r \in Requests : DirectTimeout(r)
  \/ RunTask

SpecChat == Init /\ [][NextChat]_vars

\* POST /chat: one request, piece by piece, with the persistence tasks of its
\* answers, after turns of conversation 1 were written.
NextChatApi ==
  \/ \E txt \in ChatTexts, ctx \in {NoContext, 2} : MainChat(txt, ctx)
  \/ \E late \in BOOLEAN : ChatPiece("answer", late, "none")
  \/ \E ch \in {"empty", "raise"}, late \in BOOLEAN, direct \in {"answer", "raise"} :
       ChatPiece(ch, late, direct)
  \/ \E a \in Answers : DirectReturn(ChatRequest, a)
  \/ \E d \in {"answer", "raise"} : DirectRaise(ChatRequest, d)
  \/ DirectTimeout(ChatRequest)
  \/ ChatCollect
  \/ ChatPieceTimeout
  \/ RunTask
  \/ chat.pc = "idle" /\ AddToChatHistory("user", 1, 1)

SpecChatApi == Init /\ [][NextChatApi]_vars

\* The splitting of a document text into chunks, for every text.
NextChunker == \E T \in DocTexts : ReadAndSplit(T)

SpecChunker == Init /\ [][NextChunker]_vars

\* The splitting of a request text by POST /chat, for every text.
NextSplit == \E txt \in AllChatTexts : MainChat(txt, NoContext)

SpecSplit == Init /\ [][NextSplit]_vars

\* Two processes that write documents to the collection.
NextWorkers ==
  \/ \E w \in Workers, t \in Texts, m \in Metas : InitCollectionCheck(w, t, m)
  \/ \E w \in Workers : InitCollectionCreate(w)
  \/ \E w \in Workers : StoreUpsert(w)

SpecWorkers == Init /\ [][NextWorkers]_vars

\* One agent query.
NextAgent ==
  \/ ProcessComplexQuery
  \/ \E tool \in Tools, input \in ToolInputs : AgentToolCall(tool, input)
  \/ AgentFinalAnswer
  \/ AgentGeneratorError

SpecAgent == Init /\ [][NextAgent]_vars

\* ------------------------------------------------------------------ claims

\* C1: a text of more than 8191 tokens is refused with the input-too-long
\* error, and the embedding provider is never called with it: no caller is
\* ever waiting for the provider with such a text, every completed call with
\* such a text ended "too_long", and no such text ever reached the provider.
C1_TooLongNeverReachesProvider ==
  /\ \A c \in Callers :
       count_tokens(text[c]) > MaxTokens =>
         /\ pc[c] # "provider"
         /\ pc[c] = "done" => res[c] = Raised("too_long")
  /\ \A t \in providerCalled : count_tokens(t) <= MaxTokens

C1_Witness ==
  \E c \in Callers :
    /\ pc[c] = "done"
    /\ count_tokens(text[c]) > MaxTokens
    /\ res[c] = Raised("too_long")
    /\ prevAtStart[c].text = text[c]

C3_SingleFlight ==
  \A c1, c2 \in Callers :
    (c1 # c2 /\ pc[c1] = "provider" /\ pc[c2] = "provider") => text[c1] # text[c2]

\* C4: every write gives its point an id no earlier point has, so no write
\* replaces an earlier point: the collection holds as many points as were
\* written (nothing is deleted in this specification).
C4_NoWriteReplacesAPoint == Cardinality(points) = writes

\* C5: every chunk (a point with a doc_id) and every conversation turn (a
\* point with a message_id) of the collection carries a type key that is
\* "document" or "chat".
C5_EveryPointHasType ==
  \A p \in points :
    ("doc_id" \in DOMAIN p.meta \/ "message_id" \in DOMAIN p.meta) =>
      ("type" \in DOMAIN p.meta /\ p.meta.type \in {"document", "chat"})

\* C6: the document search (filter type=document) never returns a chat turn.
C6_DocumentSearchReturnsNoChat ==
  reply.op = "doc.search_documents" =>
    \A h \in reply.hits : ~HasType(h, "chat")

\* C8: the turns get_chat_history returns are in non-decreasing order of
\* timestamp, for every context id, limit and offset.
C8_HistoryAscending ==
  reply.op = "get_chat_history" =>
    \A i, j \in 1..Len(reply.msgs) :
      i < j => reply.msgs[i].timestamp <= reply.msgs[j].timestamp

\* A history of two turns that the index holds in the other order.
C8_Witness ==
  /\ reply.op = "get_chat_history"
  /\ Len(reply.msgs) >= 2
  /\ reply.msgs[1].timestamp < reply.msgs[2].timestamp
  /\ \E p, q \in points :
       /\ "message_id" \in DOMAIN p.meta /\ p.meta.message_id = reply.msgs[1].id
       /\ "message_id" \in DOMAIN q.meta /\ q.meta.message_id = reply.msgs[2].id
       /\ q.id < p.id

\* The timestamps of the turns of a conversation, ascending.
RECURSIVE AscendingTimes(_)
AscendingTimes(pts) ==
  IF pts = {} THEN <<>>
  ELSE LET p == CHOOSE q \in pts :
                  \A o \in pts : q.meta.timestamp <= o.meta.timestamp
       IN <<p.meta.timestamp>> \o AscendingTimes(pts \ {p})

\* C9: when the store answers, get_chat_history(ctx, limit, offset) returns
\* the turns at the places offset+1 .. offset+limit of the conversation's
\* turns in ascending order of timestamp (stated on the timestamps, which
\* leaves the order of turns of equal timestamp open).
C9_HistoryIsThePageOfTheTimeline ==
  (reply.op = "get_chat_history" /\ reply.val = 0 /\ reply.args[1] # NoContext) =>
    LET all == AscendingTimes({p \in points :
                 /\ MatchesChatFilter(p, reply.args[1])
                 /\ "timestamp" \in DOMAIN p.meta})
        want == SubSeq(all, reply.args[3] + 1,
                       Min(reply.args[3] + reply.args[2], Len(all)))
    IN [i \in 1..Len(reply.msgs) |-> reply.msgs[i].timestamp] = want

\* C7: when the chain raised and the direct generation call would give an
\* answer, the caller receives that answer.  (The claim also wants it marked
\* degraded=true; get_chat_response returns the answer string alone.)
C7_FallbackAnswerReachesCaller ==
  \A r \in Requests :
    (rq[r].pc = "done" /\ rq[r].chain = "raise" /\ rq[r].direct = "answer") =>
      (rq[r].resp.kind = "answer" /\ rq[r].resp.via = "direct")

\* C10: once an answer is returned, the user turn and the assistant turn have
\* both been submitted for persistence, a persistence failure is logged, and
\* no later step (a persistence task least of all) changes the returned answer.
C10_PersistenceNeverTouchesTheAnswer ==
  /\ [](\A r \in Requests :
          rq[r].resp.kind = "answer" =>
            \A role \in Roles :
              /\ taskState[r][role] # "none"
              /\ taskState[r][role] = "failed" => [req |-> r, role |-> role] \in log)
  /\ [][\A r \in Requests : rq[r].pc = "done" => rq'[r] = rq[r]]_vars

C10_Witness ==
  \E r \in Requests :
    /\ rq[r].resp.kind = "answer"
    /\ taskState[r]["user"] = "failed"
    /\ taskState[r]["assistant"] = "stored"
    /\ [req |-> r, role |-> "user"] \in log

\* Where the text of piece i begins in the joined response when one character
\* separates the pieces.
RECURSIVE PieceStart(_, _)
PieceStart(rs, i) == IF i = 1 THEN 1 ELSE PieceStart(rs, i - 1) + Len(rs[i - 1]) + 1

\* C11: when /chat returns for a text split into pieces p1..pn, it has asked
\* get_chat_response for every piece in order, it holds exactly n responses,
\* an answer for an answered piece and the fallback text for a piece that
\* timed out or failed, and the final response is these n texts in order with
\* exactly one blank between neighbours.
C11_ResponseIsTheJoinOfAllPieces ==
  chat.pc = "done" =>
    LET n == Len(chat.chunks)
        rs == chat.responses
    IN /\ Len(rs) = n
       /\ chat.asked = [i \in 1..n |-> QueryOf(chat.chunks[i])]
       /\ \A i \in 1..n :
            /\ chat.kinds[i] = "answer" => rs[i] \in {<<a>> : a \in Answers}
            /\ chat.kinds[i] # "answer" =>
                 rs[i] \in {<<3, Blank, 4>>, <<3, Blank, 5>>, PieceTimeoutText}
            /\ SubSeq(chat.final, PieceStart(rs, i),
                      PieceStart(rs, i) + Len(rs[i]) - 1) = rs[i]
            /\ i < n => chat.final[PieceStart(rs, i) + Len(rs[i])] = Blank
       /\ Len(chat.final) = IF n = 0 THEN 0 ELSE PieceStart(rs, n) + Len(rs[n]) - 1

\* Two pieces, the first of which failed and the second of which was answered.
C11_Witness ==
  /\ chat.pc = "done"
  /\ Len(chat.chunks) = 2
  /\ chat.kinds[1] \in {"apology_timeout", "apology_error", "piece_timeout"}
  /\ chat.kinds[2] = "answer"
  /\ Len(chat.final) = 5

\* C12: the user turn and the assistant turn persisted for one chat exchange
\* carry the same context_id.  Stated for the states in which one exchange
\* alone has stored its two turns: the turns of the collection then have one
\* context_id.
C12_ExchangeSharesOneConversation ==
  \A r \in Requests :
    (/\ \A role \in Roles : taskState[r][role] = "stored"
     /\ \A o \in Requests \ {r} : \A role \in Roles : taskState[o][role] # "stored") =>
      \A p, q \in points :
        ("message_id" \in DOMAIN p.meta /\ "message_id" \in DOMAIN q.meta) =>
          p.meta.context_id = q.meta.context_id

\* C13: the recent turns from which get_chat_response assembles the chat
\* history for a query of conversation c all belong to conversation c.
C13_ContextHoldsOnlyOwnConversation ==
  (chat.ctx # NoContext /\ rq[ChatRequest].pc # "idle") =>
    \A i \in 1..Len(rq[ChatRequest].recent) :
      rq[ChatRequest].recent[i].context_id = chat.ctx

\* C14: a write of qdrant.store_document that has ended has succeeded, also
\* when another first write found the collection missing at the same time.
C14_BothFirstWritesSucceed ==
  \A w \in Workers : worker[w].pc = "done" => worker[w].ok

C20_StoreFailureIsReported ==
  (reply.op \in {"get_chat_history", "clear_chat_history"} /\ reply.val = 1) =>
    ~reply.ok

C17_ToolFailureBecomesObservation ==
  \A i \in 1..Len(agent.calls) :
    ToolRun(agent.calls[i].tool, agent.calls[i].input).failed =>
      (i <= Len(agent.observations) /\ agent.observations[i] = "Error")

\* C18: a run in which the generator never emits a final answer ends after
\* the allowed number of tool-call cycles with a result that is not an error
\* and carries stepLimitReached = true.
C18_StepLimitIsFlagged ==
  (agent.pc = "done" /\ agent.result.response = "stopped") =>
    /\ Len(agent.calls) = MaxIterations
    /\ "error" \notin DOMAIN agent.result
    /\ "stepLimitReached" \in DOMAIN agent.result
    /\ agent.result["stepLimitReached"]

\* C19: the tools_used of the result of a run that ended without an error is
\* the sequence of the tools invoked during the run, in call order.
C19_ToolsUsedIsTheCallSequence ==
  (agent.pc = "done" /\ agent.result.response # "error") =>
    agent.result.tools_used = [i \in 1..Len(agent.calls) |-> agent.calls[i].tool]

\* C21: within one exchange the user turn is appended to the conversation
\* history before the assistant turn is generated: whenever the answer of an
\* exchange exists, the user turn of that exchange is already in the history.
C21_UserTurnAppendedBeforeTheAnswer ==
  \A r \in Requests :
    rq[r].resp.kind = "answer" => taskState[r]["user"] = "stored"

\* C22: the embedding cache is a size-bounded LRU.  After any sequence of
\* get_embedding calls it holds at most maxsize entries, which are the most
\* recently used texts (so what was evicted is the least recently used), and
\* the vector it holds or returns for a text is the vector the provider
\* computed for that text, never one computed for another text.
C22_CacheIsABoundedLru ==
  LET n == Len(lru.order)
      k == IF n > maxsize THEN maxsize ELSE n
  IN /\ Len(cache) <= maxsize
     /\ [i \in 1..Len(cache) |-> cache[i].key] = SubSeq(lru.order, n - k + 1, n)
     /\ \A i \in 1..Len(cache) : cache[i].val = lru.computed[cache[i].key]
     /\ (reply.op = "get_embedding" /\ reply.ok) =>
          reply.val = lru.computed[reply.args[1]]

\* A full cache that has evicted the text t, and a call that returned the
\* vector of another text, which differs from the vector computed for t.
C22_Witness ==
  /\ Len(cache) = maxsize
  /\ reply.op = "get_embedding" /\ reply.ok
  /\ \E t \in LruTexts :
       /\ lru.computed[t] # NoVector
       /\ t \notin CacheKeys(cache)
       /\ reply.args[1] # t
       /\ reply.val # lru.computed[t]

RECURSIVE TextsOfPairs(_)
TextsOfPairs(pairs) ==
  IF pairs = <<>> THEN <<>>
  ELSE (IF Head(pairs)[2] = NoAnswer THEN <<Head(pairs)[1]>> ELSE Head(pairs))
       \o TextsOfPairs(Tail(pairs))

\* C24: the formatted history given to the generator holds every one of the
\* (at most 5) most recent turns of the history, in order, none dropped and
\* none merged into another.
C24_EveryRecentTurnIsInTheContext ==
  \A r \in Requests :
    rq[r].pc # "idle" =>
      TextsOfPairs(rq[r].history) = [i \in 1..Len(rq[r].recent) |-> rq[r].recent[i].text]

\* C28: in the pairs built from the in-memory history every answer is the
\* assistant turn produced for the user turn it is paired with: each pair
\* with an answer is the question and the answer of one exchange.
C28_EveryPairIsOneExchange ==
  LET pairs == FormattedHistory(chat_history)
  IN \A i \in 1..Len(pairs) :
       pairs[i][2] # NoAnswer =>
         \E r \in Requests :
           /\ rq[r].resp.kind = "answer"
           /\ rq[r].query = pairs[i][1]
           /\ rq[r].resp.text = pairs[i][2]

\* C29: after clear_chat_history(context_id) completed, the in-memory history
\* that get_chat_response reads holds no turn of the cleared conversation
\* (no turn at all when no context id was given).
C29_ClearedTurnsAreGoneFromMemory ==
  (reply.op = "clear_chat_history" /\ reply.val = 0) =>
    \A i \in 1..Len(chat_history) :
      /\ reply.args[1] # NoContext
      /\ chat_history[i].context_id # reply.args[1]

\* C26: every piece the chat endpoint's word splitter produces is non-empty
\* and at most 500 characters long, also when the first word or any single
\* word is longer than 500 characters.
C26_PiecesAreNonEmptyAndWithinTheLimit ==
  chat.pc # "idle" =>
    \A i \in 1..Len(chat.chunks) :
      /\ chat.chunks[i] # <<>>
      /\ ChunkLen(chat.chunks[i]) <= ChunkLimit

\* The words of the pieces, in piece order.
RECURSIVE WordsOfPieces(_)
WordsOfPieces(chunks) ==
  IF chunks = <<>> THEN <<>> ELSE Head(chunks) \o WordsOfPieces(Tail(chunks))

\* C27: the word splitter loses and reorders nothing: the words of all pieces,
\* in piece order, are the words of the request text; a text with no words
\* gives no piece and no generation call.
C27_SplitterKeepsEveryWord ==
  chat.pc # "idle" =>
    /\ WordsOfPieces(chat.chunks) = chat.words
    /\ chat.words = <<>> =>
         (chat.chunks = <<>> /\ chat.asked = <<>> /\ chat.pc = "done")

\* A text of four words cut into three pieces or more, a word of over 500
\* characters among them.
C27_Witness ==
  /\ chat.pc = "piece"
  /\ Len(chat.words) = MaxWords
  /\ Len(chat.chunks) >= 3
  /\ \E i \in 1..Len(chat.words) : WordLen(chat.words[i]) > ChunkLimit

\* A string as runs of characters: paragraph i of the text is T[i] times the
\* character i, the separator is SeparatorLen times the character 0.
RECURSIVE StringOf(_, _, _)
StringOf(T, lo, hi) ==
  IF lo > hi THEN <<>>
  ELSE IF lo = hi THEN <<[c |-> lo, n |-> T[lo]]>>
  ELSE <<[c |-> lo, n |-> T[lo]], [c |-> 0, n |-> SeparatorLen]>> \o StringOf(T, lo + 1, hi)

\* s without its first k characters
RECURSIVE DropChars(_, _)
DropChars(s, k) ==
  IF k = 0 \/ s = <<>> THEN s
  ELSE IF Head(s).n <= k THEN DropChars(Tail(s), k - Head(s).n)
  ELSE <<[c |-> Head(s).c, n |-> Head(s).n - k]>> \o Tail(s)

\* Two strings one after the other; runs of one character become one run.
RECURSIVE Concat(_, _)
Concat(s, t) ==
  IF t = <<>> THEN s
  ELSE IF s # <<>> /\ s[Len(s)].c = Head(t).c
       THEN Concat([s EXCEPT ![Len(s)].n = s[Len(s)].n + Head(t).n], Tail(t))
       ELSE Concat(Append(s, Head(t)), Tail(t))

\* The first chunk, then every later chunk without its first ChunkOverlap
\* characters.
RECURSIVE Reconstructed(_, _, _)
Reconstructed(T, chunks, k) ==
  IF k > Len(chunks) THEN <<>>
  ELSE Concat(DropChars(StringOf(T, chunks[k].lo, chunks[k].hi),
                        IF k = 1 THEN 0 ELSE ChunkOverlap),
              Reconstructed(T, chunks, k + 1))

\* C25: the chunks of a text, with the overlap dropped from each chunk after
\* the first and then concatenated, are the text; the empty text has no chunk.
C25_ChunksGiveBackTheText ==
  split.done =>
    /\ Reconstructed(split.text, split.chunks, 1) = StringOf(split.text, 1, Len(split.text))
    /\ split.text = <<>> => split.chunks = <<>>

\* C30: the docId an ingestion returns is the doc_id in the metadata of every
\* chunk it stored, whatever metadata the caller gave, and it differs from
\* the doc_id of every document ingested before.
C30_DocIdIsOnEveryChunkAndIsNew ==
  [][(/\ reply'.op \in {"doc.process_document", "lc.process_document"}
      /\ reply'.ok
      /\ points' # points) =>
       /\ \A p \in points' \ points : p.meta.doc_id = reply'.val
       /\ \A q \in points : q.meta.doc_id # reply'.val]_vars
====
